---- MODULE Spec2Model ----
(***************************************************************************)
(* Superflush core (src/main.py): flush_dns, clear_browser_data and        *)
(* sign_out_services, with the helpers is_admin and log_error.             *)
(*                                                                         *)
(* Strings built by f-strings / concatenation are modelled as sequences of *)
(* string parts (f"{name}: {e}" is <<name, ": ">> \o str(e)), filesystem   *)
(* paths as sequences of components.  The filesystem, the platform, the    *)
(* external commands and the log file are the environment: their outcomes  *)
(* are drawn nondeterministically.                                         *)
(***************************************************************************)
EXTENDS Integers, Sequences, FiniteSets, TLC

VARIABLES
    system,   \* platform.system() of the process
    admin,    \* outcome of the elevation query: "yes", "no" or "error"
    files,    \* existing regular files (set of paths)
    dirs,     \* existing directories (set of paths)
    denied,   \* paths on which the OS denies removal / listing
    log,      \* lines of superflush.log, in append order
    prev,     \* record of the call before the last one
    last,     \* record of the last call
    calls     \* number of calls made so far

vars == <<system, admin, files, dirs, denied, log, prev, last, calls>>

----------------------------------------------------------------------------
(* Bounds of the exploration *)

MaxCalls == 2
MaxPresent == 2

----------------------------------------------------------------------------
(* Configuration, src/main.py lines 34-39 *)

BROWSER_PROFILES == <<"chrome", "edge", "firefox">>

ProfilePath(name) == <<"profiles", name>>

GIT_DESKTOP_CREDENTIALS == <<"GitHub Desktop">>

Join(path, entry) == Append(path, entry)

ArtifactEntries == <<"History", "Cookies", "Login Data", "Cache">>

CredTargets == <<"git:", "github", "chrome", "edge">>

----------------------------------------------------------------------------
(* Environment: platforms, command outcomes, exceptions *)

Systems == {"Windows", "Linux", "Darwin", "FreeBSD"}

OsName(sys) == IF sys = "Windows" THEN "nt" ELSE "posix"

Outcomes == {"ok", "nonzero", "nolaunch"}

NoExc == [type |-> "None", text |-> <<>>]

Exc(type, text) == [type |-> type, text |-> text]

Str(e) == e.text

\* subprocess.check_call(argv): nonzero exit and failure to launch both raise
CheckCall(argv, out) ==
    CASE out = "ok" -> NoExc
      [] out = "nonzero" ->
            Exc("CalledProcessError",
                <<"Command ">> \o argv \o <<" returned non-zero exit status">>)
      [] OTHER ->
            Exc("FileNotFoundError",
                <<"[Errno 2] No such file or directory: ", argv[1]>>)

\* subprocess.run(argv, capture_output=True): only a failure to launch raises
SubprocessRun(argv, out) ==
    IF out = "nolaunch"
    THEN Exc("FileNotFoundError",
             <<"[Errno 2] No such file or directory: ", argv[1]>>)
    ELSE NoExc

Invocation(argv, out) == [argv |-> argv, out |-> out]

----------------------------------------------------------------------------
(* is_admin, lines 42-49 *)

is_admin(sys, adm) ==
    IF OsName(sys) = "nt"
    THEN IF adm = "error" THEN FALSE ELSE adm = "yes"
    ELSE adm = "yes"

----------------------------------------------------------------------------
(* The working state of one call.  files0, dirs0 and log0 are the          *)
(* filesystem and the log as the call found them; nlog counts the log     *)
(* appends tried so far; raised is set when an exception leaves the       *)
(* function.                                                               *)

NewCall(op, fs, ds) ==
    [op |-> op, files |-> fs, dirs |-> ds, raised |-> FALSE,
     files0 |-> fs, dirs0 |-> ds, log0 |-> <<>>,
     ok |-> TRUE, msg |-> <<>>, errors |-> <<>>, cmds |-> <<>>,
     attempted |-> {}, removed |-> {}, visited |-> <<>>,
     logged |-> <<>>, nlog |-> 0]

NoCall == NewCall("none", {}, {})

\* log_error, lines 51-53: the append number failAt of the call fails
\* (open or write raises OSError); 0 means every append succeeds.
LogWriteFails(st, failAt) == st.nlog + 1 = failAt

log_error(st, msg, failAt) ==
    IF LogWriteFails(st, failAt)
    THEN [st EXCEPT !.nlog = @ + 1, !.raised = TRUE]
    ELSE [st EXCEPT !.nlog = @ + 1, !.logged = Append(@, msg)]

----------------------------------------------------------------------------
(* flush_dns, lines 56-74 *)

FlushSuccessMsg == <<"DNS cache flushed successfully.">>

AdminRequiredMsg ==
    <<"Administrator privileges required to flush DNS on Windows.">>

\* One check_call appended to the try block's progress r = [cmds, exc]
ThenCheckCall(r, argv, out) ==
    IF r.exc # NoExc THEN r
    ELSE [cmds |-> Append(r.cmds, Invocation(argv, out)),
          exc |-> CheckCall(argv, out)]

\* The try block, lines 59-70; outs[i] is the outcome of the i-th command
FlushTry(sys, adm, outs) ==
    LET r0 == [cmds |-> <<>>, exc |-> NoExc] IN
    CASE sys = "Windows" ->
            IF ~is_admin(sys, adm)
            THEN [r0 EXCEPT !.exc = Exc("PermissionError", AdminRequiredMsg)]
            ELSE ThenCheckCall(r0, <<"ipconfig", "/flushdns">>, outs[1])
      [] sys = "Linux" ->
            ThenCheckCall(r0, <<"systemd-resolve", "--flush-caches">>, outs[1])
      [] sys = "Darwin" ->
            ThenCheckCall(
                ThenCheckCall(r0, <<"dscacheutil", "-flushcache">>, outs[1]),
                <<"killall", "-HUP", "mDNSResponder">>, outs[2])
      [] OTHER ->
            [r0 EXCEPT !.exc = Exc("RuntimeError", <<"Unsupported OS: ", sys>>)]

\* The except handler, lines 72-74
FlushHandler(st, e, failAt) ==
    LET logd == log_error(st, <<"DNS flush error: ">> \o Str(e), failAt) IN
    IF logd.raised THEN logd
    ELSE [logd EXCEPT !.ok = FALSE, !.msg = Str(e)]

flush_dns(sys, adm, fs, ds, outs, failAt) ==
    LET r  == FlushTry(sys, adm, outs)
        st == [NewCall("flush_dns", fs, ds) EXCEPT !.cmds = r.cmds]
    IN IF r.exc = NoExc
       THEN [st EXCEPT !.ok = TRUE, !.msg = FlushSuccessMsg]
       ELSE FlushHandler(st, r.exc, failAt)

----------------------------------------------------------------------------
(* Filesystem primitives used by lines 80-94 and 107-108 *)

PathExists(st, p) == p \in st.files \cup st.dirs

IsDir(st, p) == p \in st.dirs

IsUnder(p, root) == Len(p) > Len(root) /\ SubSeq(p, 1, Len(root)) = root

OsErr(errno, p) == Exc("OSError", <<errno>> \o p)

\* os.remove(target): r = [st, exc] is the progress of the enclosing try
os_remove(r, target, den) ==
    LET st == [r.st EXCEPT !.attempted = @ \cup {target}] IN
    IF target \in den \/ target \notin st.files
    THEN [st |-> st,
          exc |-> IF target \in den
                  THEN OsErr("[Errno 13] Permission denied: ", target)
                  ELSE OsErr("[Errno 2] No such file or directory: ", target)]
    ELSE [st |-> [st EXCEPT !.files = @ \ {target},
                            !.removed = @ \cup {target}],
          exc |-> NoExc]

\* shutil.rmtree(target, ignore_errors=True): never raises; a directory the
\* OS denies stays, anything that is not a directory stays
rmtree(r, target, den) ==
    LET st == [r.st EXCEPT !.attempted = @ \cup {target}] IN
    IF target \in st.dirs /\ target \notin den
    THEN LET gone == {p \in st.files \cup st.dirs : p = target \/ IsUnder(p, target)}
         IN [r EXCEPT !.st = [st EXCEPT !.files = @ \ gone,
                                        !.dirs = @ \ gone,
                                        !.removed = @ \cup gone]]
    ELSE [r EXCEPT !.st = st]

\* os.listdir(path): the entries directly under path
ListDir(st, path) ==
    {p \in st.files \cup st.dirs : Len(p) = Len(path) + 1 /\ IsUnder(p, path)}

ListDirExc(st, path, den) ==
    CASE path \notin st.files \cup st.dirs ->
            OsErr("[Errno 2] No such file or directory: ", path)
      [] path \in st.files -> OsErr("[Errno 20] Not a directory: ", path)
      [] path \in den -> OsErr("[Errno 13] Permission denied: ", path)
      [] OTHER -> NoExc

----------------------------------------------------------------------------
(* clear_browser_data, lines 76-99 *)

\* line 80
ProfileExistsAlways(st, path) == TRUE

ProfileExists(st, path) == PathExists(st, path)

\* line 85
TargetExistsAlways(st, target) == TRUE

TargetExists(st, target) == PathExists(st, target)

\* lines 84-89: one artifact entry
RemoveEntry(r, path, entry, den) ==
    LET target == Join(path, entry) IN
    IF r.exc # NoExc THEN r
    ELSE IF ~TargetExists(r.st, target) THEN r
    ELSE IF IsDir(r.st, target) THEN rmtree(r, target, den)
    ELSE os_remove(r, target, den)

\* lines 83-89: the loop over the four artifact entries, from entry i on
RECURSIVE RemoveEntries(_, _, _, _)
RemoveEntries(r, path, i, den) ==
    IF i > Len(ArtifactEntries) THEN r
    ELSE RemoveEntries(RemoveEntry(r, path, ArtifactEntries[i], den), path, i + 1, den)

\* lines 92-94: rmtree of every listed entry (none of them can raise)
RECURSIVE RemoveProfiles(_, _, _)
RemoveProfiles(r, todo, den) ==
    IF todo = {} THEN r
    ELSE LET prof_path == CHOOSE p \in todo : TRUE
         IN RemoveProfiles(rmtree(r, prof_path, den), todo \ {prof_path}, den)

\* lines 91-94
FirefoxProfiles(r, name, path, den) ==
    IF r.exc # NoExc \/ name # "firefox" THEN r
    ELSE IF ListDirExc(r.st, path, den) # NoExc
         THEN [r EXCEPT !.exc = ListDirExc(r.st, path, den)]
         ELSE RemoveProfiles(r, ListDir(r.st, path), den)

\* lines 82-94: the try block of one browser
BrowserTry(st, name, path, den) ==
    FirefoxProfiles(RemoveEntries([st |-> st, exc |-> NoExc], path, 1, den),
                    name, path, den)

\* lines 95-98 and 109-112, 119-122: format, log, append
AppendUnlogged(st, label, e, failAt) ==
    [st EXCEPT !.errors = Append(@, <<label, ": ">> \o Str(e))]

CatchAndRecord(st, label, e, failAt) ==
    LET err_msg == <<label, ": ">> \o Str(e)
        logd == log_error(st, err_msg, failAt)
    IN IF logd.raised THEN logd
       ELSE [logd EXCEPT !.errors = Append(@, err_msg)]

\* lines 79-98: the body of the for loop for one browser
ProcessBrowser(st, name, den, failAt) ==
    LET path == ProfilePath(name)
        st1 == [st EXCEPT !.visited = Append(@, name)]
    IN IF ~ProfileExists(st1, path) THEN st1
       ELSE LET r == BrowserTry(st1, name, path, den)
            IN IF r.exc = NoExc THEN r.st
               ELSE CatchAndRecord(r.st, name, r.exc, failAt)

\* line 79: the loop over BROWSER_PROFILES from index i on; an exception
\* that left the handler ends the call
RECURSIVE BrowserLoop(_, _, _, _)
BrowserLoop(st, i, den, failAt) ==
    IF i > Len(BROWSER_PROFILES) \/ st.raised THEN st
    ELSE BrowserLoop(ProcessBrowser(st, BROWSER_PROFILES[i], den, failAt),
                     i + 1, den, failAt)

clear_browser_data(fs, ds, den, failAt) ==
    BrowserLoop(NewCall("clear_browser_data", fs, ds), 1, den, failAt)

----------------------------------------------------------------------------
(* sign_out_services, lines 101-124 *)

cred_file == Join(GIT_DESKTOP_CREDENTIALS, "git-credential-desktop.json")

\* lines 105-112
CredFileStep(st, den, failAt) ==
    LET r == IF PathExists(st, cred_file)
             THEN os_remove([st |-> st, exc |-> NoExc], cred_file, den)
             ELSE [st |-> st, exc |-> NoExc]
    IN IF r.exc = NoExc THEN r.st
       ELSE CatchAndRecord(r.st, "GitHub Desktop", r.exc, failAt)

\* lines 117-118: the loop over the targets from index i on; the first
\* invocation that raises leaves the loop
RECURSIVE CmdkeyLoop(_, _, _)
CmdkeyLoop(r, i, outs) ==
    IF i > Len(CredTargets) \/ r.exc # NoExc THEN r
    ELSE LET argv == <<"cmdkey", "/delete", CredTargets[i]>>
         IN CmdkeyLoop([st |-> [r.st EXCEPT !.cmds = Append(@, Invocation(argv, outs[i]))],
                        exc |-> SubprocessRun(argv, outs[i])],
                       i + 1, outs)

\* line 114
IsWindowsHostAlways(sys) == TRUE

IsWindowsHost(sys) == OsName(sys) = "nt"

\* lines 114-122
CredentialManagerStep(st, sys, outs, failAt) ==
    IF ~IsWindowsHost(sys) THEN st
    ELSE LET r == CmdkeyLoop([st |-> st, exc |-> NoExc], 1, outs)
         IN IF r.exc = NoExc THEN r.st
            ELSE CatchAndRecord(r.st, "Windows Credentials", r.exc, failAt)

sign_out_services(sys, fs, ds, den, outs, failAt) ==
    LET st1 == CredFileStep(NewCall("sign_out_services", fs, ds), den, failAt)
    IN IF st1.raised THEN st1
       ELSE CredentialManagerStep(st1, sys, outs, failAt)

----------------------------------------------------------------------------
(* The environments explored *)

AdminOutcomes(sys) ==
    IF OsName(sys) = "nt" THEN {"yes", "no", "error"} ELSE {"yes", "no"}

ProfileRoots == {ProfilePath(BROWSER_PROFILES[i]) : i \in 1..Len(BROWSER_PROFILES)}

FirefoxRoot == ProfilePath("firefox")

\* What may exist under a profile root: the four artifact entries, and one
\* user profile folder under the firefox root
ArtifactPaths ==
    {Join(root, ArtifactEntries[i]) : root \in ProfileRoots, i \in 1..Len(ArtifactEntries)}

ProfileFolders == {Join(FirefoxRoot, "xyz.default-release")}

\* Cache and the profile folders are directories, the other entries files
DirPaths == {p \in ArtifactPaths : p[Len(p)] = "Cache"} \cup ProfileFolders

Parent(p) == SubSeq(p, 1, Len(p) - 1)

\* Sets of at most MaxPresent entries under the roots
PresentSets ==
    {T \in SUBSET (ArtifactPaths \cup ProfileFolders) : Cardinality(T) <= MaxPresent}

\* The profile roots that exist: at least the parents of the entries
RootSets(present) ==
    {R \in SUBSET ProfileRoots : \A p \in present : Parent(p) \in R}

\* What the OS may deny: removing an entry, listing the firefox root
DeniedSets(present, roots) == SUBSET (present \cup (roots \cap {FirefoxRoot}))

\* A profile path may exist without being a directory; only the firefox
\* root is ever listed, so only there does it make a difference
RootFileSets(present, roots, den) ==
    IF FirefoxRoot \in roots \ den /\ \A p \in present : Parent(p) # FirefoxRoot
    THEN {{}, {FirefoxRoot}}
    ELSE {{}}

CredStates == {"absent", "file", "denied"}

\* The platform, the elevation and the credential file vary on a machine
\* without browser profiles; the browser profiles vary on one platform.
Init ==
    \E sys \in Systems, cred \in CredStates, present \in PresentSets :
        \E adm \in AdminOutcomes(sys), roots \in RootSets(present) :
            \E den \in DeniedSets(present, roots) :
              \E rootFiles \in RootFileSets(present, roots, den) :
                /\ roots # {} => (sys = "FreeBSD" /\ adm = "no" /\ cred = "absent")
                /\ system = sys
                /\ admin = adm
                /\ files = {p \in present : p \notin DirPaths} \cup rootFiles
                              \cup (IF cred = "absent" THEN {} ELSE {cred_file})
                /\ dirs = (roots \ rootFiles) \cup (present \cap DirPaths)
                /\ denied = den \cup (IF cred = "denied" THEN {cred_file} ELSE {})
                /\ log = <<>>
                /\ prev = NoCall
                /\ last = NoCall
                /\ calls = 0

----------------------------------------------------------------------------
(* The operations, as the presentation layer calls them (lines 232-262) *)

\* The call's effects become the state: the filesystem it left, the lines
\* it appended to the log, its record
Commit(st) ==
    /\ files' = st.files
    /\ dirs' = st.dirs
    /\ log' = log \o st.logged
    /\ prev' = last
    /\ last' = [st EXCEPT !.log0 = log]
    /\ calls' = calls + 1
    /\ UNCHANGED <<system, admin, denied>>

\* Outcomes of the (at most two) commands of flush_dns: on a platform that
\* has none of the flush tools a command could only fail to launch
FlushOutcomeSeqs(sys) ==
    IF sys \in {"Windows", "Linux", "Darwin"}
    THEN [1..2 -> Outcomes]
    ELSE {[i \in 1..2 |-> "nolaunch"]}

\* Outcomes of the cmdkey invocations: the launched ones exit alike, and
\* from some invocation on the command cannot be launched; a host that is
\* not windows has no cmdkey to launch
CmdkeyOutcomeSeqs(sys) ==
    {[i \in 1..Len(CredTargets) |-> IF i < f THEN x ELSE "nolaunch"] :
        f \in (IF OsName(sys) = "nt" THEN 1..(Len(CredTargets) + 1) ELSE {1}),
        x \in {"ok", "nonzero"}}

FlushDns ==
    /\ calls < MaxCalls
    /\ \E outs \in FlushOutcomeSeqs(system), failAt \in 0..1 :
          Commit(flush_dns(system, admin, files, dirs, outs, failAt))

ClearBrowserData ==
    /\ calls < MaxCalls
    /\ \E failAt \in 0..Len(BROWSER_PROFILES) :
          Commit(clear_browser_data(files, dirs, denied, failAt))

SignOutServices ==
    /\ calls < MaxCalls
    /\ \E outs \in CmdkeyOutcomeSeqs(system), failAt \in 0..2 :
          Commit(sign_out_services(system, files, dirs, denied, outs, failAt))

Next == FlushDns \/ ClearBrowserData \/ SignOutServices

Spec == Init /\ [][Next]_vars

----------------------------------------------------------------------------
(* Vocabulary of the properties *)

Returned(c) == c.op # "none" /\ ~c.raised

ExistedAtEntry(c, p) == p \in c.files0 \cup c.dirs0

ExistsAfter(c, p) == p \in c.files \cup c.dirs

\* The error strings / log lines of c whose label (the part before ": ") is label
ErrorsOf(c, label) == {k \in 1..Len(c.errors) : c.errors[k][1] = label}

LinesOf(c, label) == {k \in 1..Len(c.logged) : c.logged[k][1] = label}

TouchedUnder(c, root) ==
    {p \in c.attempted \cup c.removed : p = root \/ IsUnder(p, root)}

RemovedUnder(c, root) == {p \in c.removed : IsUnder(p, root)}

IndexOf(name) == CHOOSE i \in 1..Len(BROWSER_PROFILES) : BROWSER_PROFILES[i] = name

BrowserNames == {BROWSER_PROFILES[i] : i \in 1..Len(BROWSER_PROFILES)}

----------------------------------------------------------------------------
\* C1: none of the three operations ever raises past its own boundary,
\* whatever the platform, the elevation, the command, deletion and log-write
\* outcomes: every call ends by returning its structured result.
C1_NeverRaises == last.op # "none" => ~last.raised

\* C2: on windows without elevation (the elevation query failing included)
\* flush_dns returns failure with the permission-denied message and invokes
\* no external command.
C2_NotElevatedFails ==
    (last.op = "flush_dns" /\ system = "Windows" /\ admin # "yes")
        => /\ Returned(last)
           /\ last.ok = FALSE
           /\ last.msg = AdminRequiredMsg
           /\ last.cmds = <<>>

\* C3: on a platform that is none of windows, linux, macos, flush_dns returns
\* failure with a message containing the platform name and invokes no command.
C3_UnsupportedFails ==
    (last.op = "flush_dns" /\ system \notin {"Windows", "Linux", "Darwin"})
        => /\ Returned(last)
           /\ last.ok = FALSE
           /\ \E i \in 1..Len(last.msg) : last.msg[i] = system
           /\ last.cmds = <<>>

\* C4: a configured browser whose profile path does not exist when
\* clear_browser_data runs gets no error string, no log line and no deletion
\* under its path, and the loop goes on past it: the browser after it is
\* examined, and a call that returns has examined every browser.
C4_MissingProfileSkipped ==
    last.op = "clear_browser_data" =>
        /\ \A i \in 1..Len(BROWSER_PROFILES) :
              LET name == BROWSER_PROFILES[i]
                  path == ProfilePath(name)
              IN ~ExistedAtEntry(last, path) =>
                    /\ ErrorsOf(last, name) = {}
                    /\ LinesOf(last, name) = {}
                    /\ TouchedUnder(last, path) = {}
                    /\ (Len(last.visited) >= i /\ i < Len(BROWSER_PROFILES))
                          => Len(last.visited) > i
        /\ Returned(last) => last.visited = BROWSER_PROFILES

\* C4 witness: a missing browser was skipped in a call that recorded an error
\* for one browser and removed something under a browser after the missing one
C4_Witness ==
    /\ last.op = "clear_browser_data"
    /\ Len(last.errors) > 0
    /\ \E i, j \in 1..Len(BROWSER_PROFILES) :
          /\ i < j
          /\ ~ExistedAtEntry(last, ProfilePath(BROWSER_PROFILES[i]))
          /\ RemovedUnder(last, ProfilePath(BROWSER_PROFILES[j])) # {}

\* A browser the call c fully cleared: c examined it, removed something under
\* its profile path, and nothing is left under that path
FullyCleared(c, name) ==
    /\ c.op = "clear_browser_data"
    /\ \E k \in 1..Len(c.visited) : c.visited[k] = name
    /\ RemovedUnder(c, ProfilePath(name)) # {}
    /\ \A p \in c.files \cup c.dirs : ~IsUnder(p, ProfilePath(name))

CleanSecondRun(name) ==
    /\ ErrorsOf(last, name) = {}
    /\ RemovedUnder(last, ProfilePath(name)) = {}

C6_EveryFailureCapturedAndContinued ==
    /\ last.op = "clear_browser_data" =>
          /\ Returned(last)
          /\ \A p \in last.attempted :
                ExistsAfter(last, p) =>
                    \E k \in 1..Len(last.errors) :
                        SubSeq(last.errors[k], 4, Len(last.errors[k])) = p
          /\ \A p \in ArtifactPaths :
                ExistedAtEntry(last, p) => p \in last.attempted
          /\ \A p \in ProfileFolders :
                (ExistedAtEntry(last, p) /\ ListDirExc(last, FirefoxRoot, denied) = NoExc)
                    => p \in last.attempted
    /\ last.op = "sign_out_services" =>
          /\ Returned(last)
          /\ (cred_file \in last.attempted /\ ExistsAfter(last, cred_file))
                => ErrorsOf(last, "GitHub Desktop") # {}
          /\ OsName(system) = "nt" => Len(last.cmds) > 0

\* C7: off windows sign_out_services never invokes the credential-manager
\* command and records no 'Windows Credentials' error, whatever the
\* credential-file step did.
C7_NoCredentialManagerOffWindows ==
    (last.op = "sign_out_services" /\ system # "Windows")
        => /\ last.cmds = <<>>
           /\ ErrorsOf(last, "Windows Credentials") = {}
           /\ LinesOf(last, "Windows Credentials") = {}

\* C7 witness: a call off windows whose credential-file deletion failed
C7_Witness ==
    /\ last.op = "sign_out_services"
    /\ system # "Windows"
    /\ cred_file \in last.attempted
    /\ ErrorsOf(last, "GitHub Desktop") # {}

\* C8: when the credential file exists and its deletion is denied,
\* sign_out_services returns normally with exactly one error string, which
\* begins with 'GitHub Desktop: '.
C8_OneErrorOnDeniedCredFile ==
    (last.op = "sign_out_services" /\ ExistedAtEntry(last, cred_file) /\ cred_file \in denied)
        => /\ Returned(last)
           /\ Len(last.errors) = 1
           /\ last.errors[1][1] = "GitHub Desktop"
           /\ last.errors[1][2] = ": "

NoLaunches(c) == {i \in 1..Len(c.cmds) : c.cmds[i].out = "nolaunch"}

\* C9: on windows every sign_out_services call invokes the credential-manager
\* command exactly once per identifier of the list, in list order, after the
\* credential-file step whether or not that step failed; a nonzero exit adds
\* no error, only a failure to launch adds a 'Windows Credentials' error.
C9_EveryTargetInvoked ==
    (last.op = "sign_out_services" /\ system = "Windows")
        => /\ Len(last.cmds) = Len(CredTargets)
           /\ \A i \in 1..Len(last.cmds) :
                 last.cmds[i].argv = <<"cmdkey", "/delete", CredTargets[i]>>
           /\ Cardinality(ErrorsOf(last, "Windows Credentials"))
                 = Cardinality(NoLaunches(last))

\* The lines a returned call has to have appended
ExpectedLines(c) ==
    IF c.op = "flush_dns"
    THEN IF c.ok THEN <<>> ELSE << <<"DNS flush error: ">> \o c.msg >>
    ELSE c.errors

\* C10: every failure a call reports is in the log when the call returns: a
\* failing flush_dns has appended one line carrying the failure text,
\* clear_browser_data and sign_out_services one line per returned error
\* string in the same order; a success (the fixed confirmation message, or an
\* empty error sequence) has appended nothing.
C10_ReportedFailuresLogged ==
    Returned(last) =>
        /\ log = last.log0 \o ExpectedLines(last)
        /\ (last.op = "flush_dns" /\ last.ok) => last.msg = FlushSuccessMsg

\* C10 witness: a returned clear_browser_data with two error strings, after a
\* call that had already left lines in the log
C10_Witness ==
    /\ Returned(last)
    /\ last.op = "clear_browser_data"
    /\ Len(last.errors) = 2
    /\ Len(last.log0) > 0

----------------------------------------------------------------------------
(* Supporting invariants: what the code guarantees where the claims above  *)
(* ask for more                                                            *)

\* A call raises only out of a handler whose log append failed
RaisesOnlyOnLogFailure ==
    last.raised => (last.nlog > 0 /\ Len(last.logged) < last.nlog)

\* flush_dns on windows without elevation never invokes a command, and what
\* it returns is the permission failure
NotElevatedNeverInvokes ==
    (last.op = "flush_dns" /\ system = "Windows" /\ admin # "yes")
        => /\ last.cmds = <<>>
           /\ Returned(last) => (last.ok = FALSE /\ last.msg = AdminRequiredMsg)

\* flush_dns on an unsupported platform never invokes a command, and what it
\* returns is a failure naming the platform
UnsupportedNeverInvokes ==
    (last.op = "flush_dns" /\ system \notin {"Windows", "Linux", "Darwin"})
        => /\ last.cmds = <<>>
           /\ Returned(last) =>
                 (last.ok = FALSE /\ \E i \in 1..Len(last.msg) : last.msg[i] = system)

\* A returned sign_out_services with a denied credential file holds the
\* 'GitHub Desktop' string first, and one more string per failed launch
DeniedCredFileErrors ==
    (/\ last.op = "sign_out_services" /\ Returned(last)
     /\ ExistedAtEntry(last, cred_file) /\ cred_file \in denied)
        => /\ Len(last.errors) = 1 + Cardinality(NoLaunches(last))
           /\ last.errors[1][1] = "GitHub Desktop"

\* On windows the invocations of a returned sign_out_services are a prefix of
\* the target list, the whole list when every launch succeeds, with one
\* 'Windows Credentials' string exactly when a launch failed
CmdkeyPrefixInvoked ==
    (last.op = "sign_out_services" /\ system = "Windows" /\ Returned(last))
        => /\ NoLaunches(last) = {} => Len(last.cmds) = Len(CredTargets)
           /\ \A i \in 1..Len(last.cmds) :
                 last.cmds[i].argv = <<"cmdkey", "/delete", CredTargets[i]>>
           /\ Cardinality(ErrorsOf(last, "Windows Credentials"))
                 = Cardinality(NoLaunches(last))

\* A returned clear_browser_data holds at most one string per browser, in
\* table order, and one for each browser with a regular file it could not
\* remove
OneErrorPerBrowser ==
    (last.op = "clear_browser_data" /\ Returned(last))
        => /\ \A name \in BrowserNames : Cardinality(ErrorsOf(last, name)) <= 1
           /\ \A j, k \in 1..Len(last.errors) :
                 j < k => IndexOf(last.errors[j][1]) < IndexOf(last.errors[k][1])
           /\ \A p \in last.attempted \cap last.files :
                 ErrorsOf(last, p[2]) # {}

====
